---- MODULE Spec2Model ----
(***************************************************************************)
(* Shape, buffer and channel-flow model of src/discriminator.py:           *)
(*   DiscriminatorMultiScales  (three DiscriminatorEBEN, one MelGAN)       *)
(*   DiscriminatorEBEN         (8 modules, grouped 1-d convolutions)       *)
(*   DiscriminatorMelGAN       (7 modules)                                 *)
(* A tensor is its shape (B, C, L), the buffer that holds its values and   *)
(* the number of writes that buffer had seen when the tensor was produced. *)
(***************************************************************************)
EXTENDS Integers, Sequences, FiniteSets, TLC

\* ------------------------------------------------------------------ bounds
MaxQ == 8
MaxBatch == 2
MaxBandTime == 1100
MaxAudioTime == 4100

\* Time lengths fed to the ensemble: around each band discriminator's
\* shortest accepted input, and the end-to-end scenario's lengths.
BandTimes == {1, 2, 314, 315, 630, 631, 1024, 1025}
AudioTimes == {7, 8, 4096}

VARIABLES
    pc,                    \* position of the ensemble's caller
    q,                     \* self.q
    pqmf_discriminators,   \* self.pqmf_discriminators
    melgan_discriminator,  \* self.melgan_discriminator (<<>>: not yet set)
    bands, audio,          \* arguments of DiscriminatorMultiScales.forward
    embeddings,            \* local list of DiscriminatorMultiScales.forward
    result,                \* value returned to the caller (<<>>: nothing)
    heap,                  \* buffer id -> number of writes it has seen
    log,                   \* sub-discriminators evaluated in this call
    dis, x, ret,           \* one discriminator called on its own: object, input, outcome
    flow_dis, flow_band, flow \* channel flow through one band discriminator

vars == <<pc, q, pqmf_discriminators, melgan_discriminator, bands, audio,
          embeddings, result, heap, log, dis, x, ret, flow_dis, flow_band, flow>>

ensembleVars == <<pc, q, pqmf_discriminators, melgan_discriminator, bands, audio,
                  embeddings, result, heap, log>>
evalVars == <<dis, x, ret>>
flowVars == <<flow_dis, flow_band, flow>>

\* ------------------------------------------------------- module tables
\* One module of a discriminator list: optional ReflectionPad1d(rpad),
\* Conv1d(cin, cout, kernel_size, stride, padding, dilation, groups) under
\* weight_norm, optional in-place LeakyReLU.
Block(rpad, cin, cout, k, s, p, d, g, act) ==
    [rpad |-> rpad, cin |-> cin, cout |-> cout, kernel_size |-> k, stride |-> s,
     padding |-> p, dilation |-> d, groups |-> g, act |-> act]

\* The constructor without its divisibility check.
normalized_conv1dUnchecked(blk) == blk.groups > 0

\* nn.Conv1d's constructor: groups must divide both channel counts.
normalized_conv1d(blk) ==
    /\ blk.groups > 0
    /\ blk.cin % blk.groups = 0
    /\ blk.cout % blk.groups = 0

EBENBlocks(dilation, qq) ==
    << Block(1, qq, 80, 3, 1, 1, dilation, qq, TRUE),
       Block(0, 80, 160, 7, 2, 3, dilation, qq, TRUE),
       Block(0, 160, 320, 7, 2, 3, dilation, qq, TRUE),
       Block(0, 320, 480, 7, 2, 3, dilation, qq, TRUE),
       Block(0, 480, 640, 7, 2, 3, dilation, qq, TRUE),
       Block(0, 640, 960, 7, 2, 3, dilation, qq, TRUE),
       Block(0, 960, 960, 5, 1, 2, dilation, qq, TRUE),
       Block(0, 960, 1, 3, 1, 1, 1, 1, FALSE) >>

MelGANBlocks ==
    << Block(7, 1, 16, 15, 1, 0, 1, 1, TRUE),
       Block(0, 16, 64, 41, 4, 20, 1, 4, TRUE),
       Block(0, 64, 256, 41, 4, 20, 1, 4, TRUE),
       Block(0, 256, 1024, 41, 4, 20, 1, 4, TRUE),
       Block(0, 1024, 1024, 41, 4, 20, 1, 4, TRUE),
       Block(0, 1024, 1024, 5, 1, 2, 1, 1, TRUE),
       Block(0, 1024, 1, 3, 1, 1, 1, 1, FALSE) >>

\* ------------------------------------------------------- construction
\* A constructor's outcome: fault, or the object built.
AllConvOk(blocks) == \A k \in 1..Len(blocks) : normalized_conv1d(blocks[k])

\* The last convolution declared with two output channels.
NewEBENTwoLogits(dilation, qq) ==
    LET blocks == [EBENBlocks(dilation, qq) EXCEPT ![8].cout = 2] IN
    IF AllConvOk(blocks)
    THEN [fault |-> FALSE,
          obj |-> <<[kind |-> "EBEN", dilation |-> dilation, discriminator |-> blocks]>>]
    ELSE [fault |-> TRUE, obj |-> <<>>]

\* dilation=self.dilation left out of every convolution.
NewEBENNoDilation(dilation, qq) ==
    LET blocks == EBENBlocks(1, qq) IN
    IF AllConvOk(blocks)
    THEN [fault |-> FALSE,
          obj |-> <<[kind |-> "EBEN", dilation |-> dilation, discriminator |-> blocks]>>]
    ELSE [fault |-> TRUE, obj |-> <<>>]

\* groups=q left out of the seventh convolution.
NewEBENUngrouped(dilation, qq) ==
    LET blocks == [EBENBlocks(dilation, qq) EXCEPT ![7].groups = 1] IN
    IF AllConvOk(blocks)
    THEN [fault |-> FALSE,
          obj |-> <<[kind |-> "EBEN", dilation |-> dilation, discriminator |-> blocks]>>]
    ELSE [fault |-> TRUE, obj |-> <<>>]

\* DiscriminatorEBEN.__init__(dilation, q).
NewEBEN(dilation, qq) ==
    LET blocks == EBENBlocks(dilation, qq) IN
    IF AllConvOk(blocks)
    THEN [fault |-> FALSE,
          obj |-> <<[kind |-> "EBEN", dilation |-> dilation, discriminator |-> blocks]>>]
    ELSE [fault |-> TRUE, obj |-> <<>>]

\* The first convolution zero-padded on top of the reflection padding.
NewMelGANDoublePad ==
    LET blocks == [MelGANBlocks EXCEPT ![1].padding = 7] IN
    IF AllConvOk(blocks)
    THEN [fault |-> FALSE,
          obj |-> <<[kind |-> "MelGAN", dilation |-> 1, discriminator |-> blocks]>>]
    ELSE [fault |-> TRUE, obj |-> <<>>]

\* DiscriminatorMelGAN.__init__().
NewMelGAN ==
    IF AllConvOk(MelGANBlocks)
    THEN [fault |-> FALSE,
          obj |-> <<[kind |-> "MelGAN", dilation |-> 1, discriminator |-> MelGANBlocks]>>]
    ELSE [fault |-> TRUE, obj |-> <<>>]

Dilations == <<1, 2, 3>>

\* The loop of DiscriminatorMultiScales.__init__: the sub-discriminators
\* appended before the first constructor fault, and whether one faulted.
RECURSIVE BuildPqmf(_, _, _)
BuildPqmf(qq, i, acc) ==
    IF i > Len(Dilations) THEN [fault |-> FALSE, list |-> acc]
    ELSE LET r == NewEBEN(Dilations[i], qq) IN
         IF r.fault THEN [fault |-> TRUE, list |-> acc]
         ELSE BuildPqmf(qq, i + 1, acc \o r.obj)

\* ------------------------------------------------------- tensor operations
\* Every operation returns [fault, out, heap]: whether the runtime raised,
\* the tensor produced, and the buffers afterwards.
Tensor(buf, ver, B, C, L, prod) ==
    [buf |-> buf, ver |-> ver, B |-> B, C |-> C, L |-> L, prod |-> prod]

Raised(h) == [fault |-> TRUE, out |-> <<>>, heap |-> h]

\* A fresh buffer, written once by the operation that fills it.
Alloc(h) == Append(h, 1)

\* The padding without its size check.
ReflectionPad1dUnchecked(pad, t, h) ==
    [fault |-> FALSE,
     out |-> Tensor(Len(h) + 1, 1, t.B, t.C, t.L + 2 * pad, t.prod),
     heap |-> Alloc(h)]

\* nn.ReflectionPad1d(pad): a new tensor, longer by pad on each side; the
\* padding must be smaller than the input's time length.
ReflectionPad1d(pad, t, h) ==
    IF pad >= t.L THEN Raised(h)
    ELSE [fault |-> FALSE,
          out |-> Tensor(Len(h) + 1, 1, t.B, t.C, t.L + 2 * pad, t.prod),
          heap |-> Alloc(h)]

\* The length rule with the dilation left out.
ConvLenNoDilation(blk, L) ==
    ((L + 2 * blk.padding - (blk.kernel_size - 1) - 1) \div blk.stride) + 1

\* Output length of a convolution over a time axis of length L.
ConvLen(blk, L) ==
    ((L + 2 * blk.padding - blk.dilation * (blk.kernel_size - 1) - 1) \div blk.stride) + 1

\* nn.Conv1d.forward: a new tensor with cout channels; the input must have
\* cin channels and the padded input must cover the dilated kernel.
Conv1d(blk, t, h) ==
    IF t.C # blk.cin THEN Raised(h)
    ELSE IF t.L + 2 * blk.padding < blk.dilation * (blk.kernel_size - 1) + 1 THEN Raised(h)
    ELSE [fault |-> FALSE,
          out |-> Tensor(Len(h) + 1, 1, t.B, blk.cout, ConvLen(blk, t.L), <<blk>>),
          heap |-> Alloc(h)]

\* nn.LeakyReLU(0.2, inplace=True): writes into its argument's buffer and
\* returns that same tensor.
LeakyReLU(t, h) ==
    [fault |-> FALSE,
     out |-> [t EXCEPT !.ver = h[t.buf] + 1],
     heap |-> [h EXCEPT ![t.buf] = @ + 1]]

\* The activation applied to the module's input before the convolution.
ApplyModulePreActivation(blk, t, h) ==
    LET a == IF blk.act THEN LeakyReLU(t, h) ELSE [fault |-> FALSE, out |-> t, heap |-> h]
        p == IF blk.rpad > 0 THEN ReflectionPad1d(blk.rpad, a.out, a.heap) ELSE a
    IN  IF p.fault THEN p ELSE Conv1d(blk, p.out, p.heap)

\* One module of a discriminator list applied to a tensor: nn.Sequential of
\* (ReflectionPad1d), Conv1d, LeakyReLU(inplace), or the bare last Conv1d.
ApplyModule(blk, t, h) ==
    LET p == IF blk.rpad > 0 THEN ReflectionPad1d(blk.rpad, t, h)
             ELSE [fault |-> FALSE, out |-> t, heap |-> h]
    IN  IF p.fault THEN p
        ELSE LET c == Conv1d(blk, p.out, p.heap) IN
             IF c.fault THEN c
             ELSE IF blk.act THEN LeakyReLU(c.out, c.heap) ELSE c

\* The loop of DiscriminatorEBEN.forward / DiscriminatorMelGAN.forward from
\* module k on; a fault leaves no list behind.
RECURSIVE RunModules(_, _, _, _)
RunModules(blocks, k, emb, h) ==
    IF k > Len(blocks) THEN [fault |-> FALSE, embeddings |-> emb, heap |-> h]
    ELSE LET r == ApplyModule(blocks[k], emb[Len(emb)], h) IN
         IF r.fault THEN [fault |-> TRUE, embeddings |-> <<>>, heap |-> r.heap]
         ELSE RunModules(blocks, k + 1, Append(emb, r.out), r.heap)

\* DiscriminatorEBEN.forward and DiscriminatorMelGAN.forward.
forward(d, t, h) == RunModules(d.discriminator, 1, <<t>>, h)

\* ------------------------------------------------------- the ensemble
NoEval == [done |-> FALSE, fault |-> FALSE, embeddings |-> <<>>, heap |-> <<>>]

IdleEval == dis = <<>> /\ x = <<>> /\ ret = NoEval
IdleFlow == flow_dis = <<>> /\ flow_band = 0 /\ flow = <<>>
IdleEnsemble ==
    /\ pc = "idle" /\ q = 0
    /\ pqmf_discriminators = <<>> /\ melgan_discriminator = <<>>
    /\ bands = <<>> /\ audio = <<>> /\ embeddings = <<>>
    /\ result = <<>> /\ heap = <<>> /\ log = <<>>

Init ==
    /\ pc = "new"
    /\ q \in 1..MaxQ
    /\ pqmf_discriminators = <<>>
    /\ melgan_discriminator = <<>>
    /\ bands = <<>> /\ audio = <<>>
    /\ embeddings = <<>>
    /\ result = <<>>
    /\ heap = <<>>
    /\ log = <<>>
    /\ IdleEval
    /\ IdleFlow

\* DiscriminatorMultiScales.__init__(q): a constructor fault leaves the
\* caller without an ensemble.
MultiScalesInit ==
    /\ pc = "new"
    /\ LET b == BuildPqmf(q, 1, <<>>)
           m == NewMelGAN
       IN  /\ pqmf_discriminators' = b.list
           /\ melgan_discriminator' = IF b.fault THEN <<>> ELSE m.obj
           /\ pc' = IF b.fault \/ m.fault THEN "ctor_raised" ELSE "ready"
    /\ UNCHANGED <<q, bands, audio, embeddings, result, heap, log>>
    /\ UNCHANGED <<evalVars, flowVars>>

\* The caller invokes forward(bands, audio): embeddings = [].
ForwardEnter ==
    /\ pc \in {"ready", "returned", "raised"}
    /\ \E Bb \in 1..MaxBatch, Cb \in {q, q + 1}, Lb \in BandTimes,
          Ba \in 1..MaxBatch, Ca \in {1, 2}, La \in AudioTimes :
          /\ bands' = Tensor(1, 1, Bb, Cb, Lb, <<>>)
          /\ audio' = Tensor(2, 1, Ba, Ca, La, <<>>)
    /\ heap' = <<1, 1>>
    /\ embeddings' = <<>>
    /\ result' = <<>>
    /\ log' = <<>>
    /\ pc' = "pqmf"
    /\ UNCHANGED <<q, pqmf_discriminators, melgan_discriminator>>
    /\ UNCHANGED <<evalVars, flowVars>>

\* A fault inside a sub-discriminator is swallowed and the loop goes on.
LoopStepSwallow(r) ==
    /\ embeddings' = IF r.fault THEN embeddings ELSE Append(embeddings, r.embeddings)
    /\ pc' = "pqmf"
    /\ UNCHANGED result

\* One iteration of `for dis in self.pqmf_discriminators`, given the outcome
\* r of dis(bands): append it, or let the fault out of forward.
LoopStep(r) ==
    /\ embeddings' = IF r.fault THEN <<>> ELSE Append(embeddings, r.embeddings)
    /\ pc' = IF r.fault THEN "raised" ELSE "pqmf"
    /\ UNCHANGED result

\* Sub-discriminators evaluated on each other's input.
DispatchSwapped(i) ==
    IF i <= Len(pqmf_discriminators)
    THEN forward(pqmf_discriminators[i], audio, heap)
    ELSE forward(melgan_discriminator[1], bands, heap)

\* The i-th evaluation of forward: the i-th band discriminator on bands,
\* then the full-band discriminator on audio.
Dispatch(i) ==
    IF i <= Len(pqmf_discriminators)
    THEN forward(pqmf_discriminators[i], bands, heap)
    ELSE forward(melgan_discriminator[1], audio, heap)

ForwardPqmf ==
    /\ pc = "pqmf"
    /\ Len(log) < Len(pqmf_discriminators)
    /\ LET i == Len(log) + 1
           r == Dispatch(i)
       IN  /\ LoopStep(r)
           /\ heap' = r.heap
           /\ log' = Append(log, i)
    /\ UNCHANGED <<q, pqmf_discriminators, melgan_discriminator, bands, audio>>
    /\ UNCHANGED <<evalVars, flowVars>>

\* embeddings.append(self.melgan_discriminator(audio)); return embeddings
ForwardMelgan ==
    /\ pc = "pqmf"
    /\ Len(log) = Len(pqmf_discriminators)
    /\ LET i == Len(log) + 1
           r == Dispatch(i)
       IN  /\ embeddings' = IF r.fault THEN <<>> ELSE Append(embeddings, r.embeddings)
           /\ result' = IF r.fault THEN <<>> ELSE Append(embeddings, r.embeddings)
           /\ pc' = IF r.fault THEN "raised" ELSE "returned"
           /\ heap' = r.heap
           /\ log' = Append(log, i)
    /\ UNCHANGED <<q, pqmf_discriminators, melgan_discriminator, bands, audio>>
    /\ UNCHANGED <<evalVars, flowVars>>

Next == MultiScalesInit \/ ForwardEnter \/ ForwardPqmf \/ ForwardMelgan

Spec == Init /\ [][Next]_vars

\* ------------------------------------------- one discriminator on its own
ValidQ == {qq \in 1..MaxQ : ~NewEBEN(1, qq).fault}

InitEval ==
    /\ IdleEnsemble
    /\ IdleFlow
    /\ ret = NoEval
    /\ \/ /\ \E d \in 1..3, qq \in ValidQ : dis = NewEBEN(d, qq).obj
          /\ \E B \in 1..MaxBatch, C \in {dis[1].discriminator[1].cin, dis[1].discriminator[1].cin + 1},
                L \in 1..MaxBandTime : x = Tensor(1, 1, B, C, L, <<>>)
       \/ /\ dis = NewMelGAN.obj
          /\ \E B \in 1..MaxBatch, C \in {1, 2}, L \in 1..MaxAudioTime :
                x = Tensor(1, 1, B, C, L, <<>>)

\* dis(x): DiscriminatorEBEN.forward or DiscriminatorMelGAN.forward.
Evaluate ==
    /\ ~ret.done
    /\ LET r == forward(dis[1], x, <<1>>) IN
       ret' = [done |-> TRUE, fault |-> r.fault, embeddings |-> r.embeddings, heap |-> r.heap]
    /\ UNCHANGED <<dis, x>>
    /\ UNCHANGED <<ensembleVars, flowVars>>

NextEval == Evaluate

SpecEval == InitEval /\ [][NextEval]_vars

\* ------------------------------- channel flow through a band discriminator
\* flow[k][c]: whether channel c of the k-th embedding can change when the
\* values of input band flow_band alone are changed.

\* The input channels a grouped convolution reads for output channel c:
\* those of the group c belongs to.
GroupInputs(blk, c) ==
    LET g == c \div (blk.cout \div blk.groups)
        n == blk.cin \div blk.groups
    IN  (g * n)..((g + 1) * n - 1)

FlowConv1d(blk, t) ==
    [c \in 0..(blk.cout - 1) |-> \E i \in GroupInputs(blk, c) : t[i]]

\* ReflectionPad1d and LeakyReLU act on each channel separately.
FlowModule(blk, t) == FlowConv1d(blk, t)

InitFlow ==
    /\ IdleEnsemble
    /\ IdleEval
    /\ \E d \in 1..3, qq \in ValidQ :
          /\ flow_dis = NewEBEN(d, qq).obj
          /\ flow_band \in 0..(qq - 1)
          /\ flow = << [c \in 0..(qq - 1) |-> c = flow_band] >>

\* One iteration of the loop of DiscriminatorEBEN.forward.
FlowStep ==
    /\ Len(flow) <= Len(flow_dis[1].discriminator)
    /\ flow' = Append(flow, FlowModule(flow_dis[1].discriminator[Len(flow)], flow[Len(flow)]))
    /\ UNCHANGED <<flow_dis, flow_band>>
    /\ UNCHANGED <<ensembleVars, evalVars>>

NextFlow == FlowStep

SpecFlow == InitFlow /\ [][NextFlow]_vars

\* ================================================================ claims
CeilDiv(a, b) == (a + b - 1) \div b
Last(seq) == seq[Len(seq)]
ShapeOf(t) == <<t.B, t.C, t.L>>

\* Which discriminator produced a returned sequence: the modules that
\* produced its elements, in order.
ProducedBy(seq, blocks) ==
    /\ Len(seq) = Len(blocks) + 1
    /\ \A k \in 1..Len(blocks) : seq[k + 1].prod = <<blocks[k]>>

\* C1: every forward(bands, audio) of the ensemble that returns gives a list
\* of exactly four sequences, in the order band dilation 1, 2, 3, full-band;
\* the first three start from bands and the fourth from audio, for every q.
C1_FourSequencesInOrder ==
    pc = "returned" =>
        /\ Len(result) = 4
        /\ \A i \in 1..3 :
              /\ result[i][1] = bands
              /\ ProducedBy(result[i], EBENBlocks(i, q))
        /\ result[4][1] = audio
        /\ ProducedBy(result[4], MelGANBlocks)
        /\ bands.buf # audio.buf

C1_Witness ==
    /\ pc = "returned"
    /\ q = 1
    /\ bands.C = audio.C
    /\ Len(result) = 4

\* C7: construction fails whenever q does not divide each of 80, 160, 320,
\* 480, 640 and 960, and then the caller holds no ensemble: nothing was
\* built and forward is never entered.
DividesAll(qq) == \A c \in {80, 160, 320, 480, 640, 960} : c % qq = 0

C7_ConstructionFailsOnIndivisibleQ ==
    (pc # "new" /\ ~DividesAll(q)) =>
        /\ pc = "ctor_raised"
        /\ pqmf_discriminators = <<>>
        /\ melgan_discriminator = <<>>
        /\ result = <<>>

C7_Witness ==
    /\ pc = "ctor_raised"
    /\ q = 3
    /\ pqmf_discriminators = <<>>

\* C8: forward is all-or-nothing. The sub-discriminators are evaluated once
\* each in the order 1, 2, 3, full-band; an evaluation that faults is the
\* last one of the call, the fault leaves forward, and nothing is returned.
IsPrefix(a, b) == Len(a) <= Len(b) /\ \A n \in 1..Len(a) : a[n] = b[n]

C8_AllOrNothing ==
    /\ IsPrefix(log, <<1, 2, 3, 4>>)
    /\ \A n \in 1..Len(log) :
          Dispatch(log[n]).fault => (n = Len(log) /\ pc = "raised")
    /\ pc = "raised" =>
          /\ Len(log) >= 1
          /\ Dispatch(Last(log)).fault
          /\ result = <<>>
    /\ pc = "pqmf" => (result = <<>> /\ Len(embeddings) = Len(log))
    /\ pc = "returned" => (log = <<1, 2, 3, 4>> /\ Len(result) = 4)

C8_Witness ==
    /\ pc = "raised"
    /\ log = <<1, 2>>
    /\ result = <<>>

\* C10: no in-place activation overwrites a tensor that is already in a
\* list: the caller's bands and audio and every embedding appended so far
\* hold the values they had when they were produced, the elements of one
\* sequence are distinct buffers, and element 0 of each band sequence is
\* the unmodified bands tensor.
Unwritten(t) == heap[t.buf] = t.ver

DistinctBuffers(seq) ==
    \A j, k \in 1..Len(seq) : j # k => seq[j].buf # seq[k].buf

C10_NoEmbeddingOverwritten ==
    pc \in {"pqmf", "returned", "raised"} =>
        /\ Unwritten(bands) /\ bands.ver = 1
        /\ Unwritten(audio) /\ audio.ver = 1
        /\ \A i \in 1..Len(embeddings) :
              /\ \A k \in 1..Len(embeddings[i]) : Unwritten(embeddings[i][k])
              /\ DistinctBuffers(embeddings[i])
              /\ i <= 3 => embeddings[i][1] = bands
        /\ pc = "returned" => result = embeddings

C10_Witness ==
    /\ pc = "returned"
    /\ Len(result) = 4
    /\ \E k \in 2..8 : heap[result[1][k].buf] = 2
    /\ heap[bands.buf] = 1

\* C6 (as stated): for the same bands the three band sequences agree
\* position by position in batch size, channel count and temporal length.
C6_SameShapes ==
    pc = "returned" =>
        \A i, j \in 1..3 : \A k \in 1..Len(result[i]) :
            ShapeOf(result[i][k]) = ShapeOf(result[j][k])

\* C6 (amended): the three band sequences agree position by position in
\* batch size and channel count and share element 0; at every later
\* position the temporal length is strictly smaller for a larger dilation.
C6_SameBatchAndChannelsShorterWithDilation ==
    pc = "returned" =>
        /\ \A i \in 1..3 : Len(result[i]) = 9 /\ result[i][1] = bands
        /\ \A i, j \in 1..3 : \A k \in 1..9 :
              /\ result[i][k].B = result[j][k].B
              /\ result[i][k].C = result[j][k].C
        /\ \A k \in 2..9 :
              /\ result[1][k].L > result[2][k].L
              /\ result[2][k].L > result[3][k].L

C6_Witness ==
    /\ pc = "returned"
    /\ bands.L = 1024
    /\ <<Last(result[1]).L, Last(result[2]).L, Last(result[3]).L>> = <<33, 23, 13>>

\* ------------------------------------ claims on one discriminator's forward
IsEBEN == dis[1].kind = "EBEN"
IsMelGAN == dis[1].kind = "MelGAN"
DeclaredChannels == dis[1].discriminator[1].cin
Completed == ret.done /\ ~ret.fault
Channels(seq) == [k \in 1..Len(seq) |-> seq[k].C]

\* C2 (as stated): with the declared channel count, every positive batch
\* size and time length completes and gives 9 tensors (band discriminator,
\* any dilation in 1..3) or 8 tensors (full-band discriminator).
C2_AlwaysCompletes ==
    (ret.done /\ x.C = DeclaredChannels) =>
        /\ ~ret.fault
        /\ Len(ret.embeddings) = IF IsEBEN THEN 9 ELSE 8

\* The shortest time length each discriminator accepts.
MinTime == IF IsMelGAN THEN 8
           ELSE IF dis[1].dilation = 1 THEN 2
           ELSE IF dis[1].dilation = 2 THEN 315
           ELSE 631

\* C2 (amended): with the declared channel count and any positive batch
\* size, evaluate completes exactly when the time length is at least 2, 315
\* or 631 (band discriminator, dilation 1, 2, 3) or at least 8 (full-band),
\* and then returns the input followed by the output of each module in
\* order: 9 tensors for the band discriminator, 8 for the full-band one.
\* A wrong channel count faults.
C2_CompletesFromMinTime ==
    ret.done =>
        /\ x.C = DeclaredChannels => (~ret.fault <=> x.L >= MinTime)
        /\ x.C # DeclaredChannels => ret.fault
        /\ ~ret.fault =>
              /\ Len(ret.embeddings) = IF IsEBEN THEN 9 ELSE 8
              /\ ret.embeddings[1] = x
              /\ ProducedBy(ret.embeddings, dis[1].discriminator)
              /\ \A k \in 1..Len(ret.embeddings) : ret.embeddings[k].B = x.B

C2_Witness ==
    /\ Completed
    /\ IsEBEN /\ dis[1].dilation = 3
    /\ x.L = 631 /\ x.B = 2
    /\ Len(ret.embeddings) = 9

\* C3: the channel counts of the returned tensors are, in order,
\* [q, 80, 160, 320, 480, 640, 960, 960, 1] for the band discriminator and
\* [1, 16, 64, 256, 1024, 1024, 1024, 1] for the full-band one; every
\* module's output channel count is the next module's input channel count
\* and the last tensor has one channel.
ChannelsChain(blocks) ==
    /\ \A k \in 1..(Len(blocks) - 1) : blocks[k].cout = blocks[k + 1].cin
    /\ Last(blocks).cout = 1

C3_ChannelCounts ==
    /\ ChannelsChain(dis[1].discriminator)
    /\ Completed =>
          /\ Last(ret.embeddings).C = 1
          /\ IsEBEN => Channels(ret.embeddings) =
                          <<x.C, 80, 160, 320, 480, 640, 960, 960, 1>>
          /\ IsEBEN => x.C = DeclaredChannels
          /\ IsMelGAN => Channels(ret.embeddings) =
                          <<1, 16, 64, 256, 1024, 1024, 1024, 1>>

C3_Witness ==
    /\ Completed
    /\ IsEBEN
    /\ x.C = 5
    /\ Channels(ret.embeddings) = <<5, 80, 160, 320, 480, 640, 960, 960, 1>>

\* Every module's output length follows the convolution length rule applied
\* after the module's reflection padding.
FollowsLengthRule(seq, blocks) ==
    \A k \in 1..Len(blocks) :
        seq[k + 1].L = ConvLen(blocks[k], seq[k].L + 2 * blocks[k].rpad)

\* C4 (as stated): the last tensor of the band discriminator has temporal
\* length ceil(input_length / 32); 1024 gives 32.
C4_LastLengthCeil32 ==
    (Completed /\ IsEBEN) =>
        /\ Last(ret.embeddings).L = CeilDiv(x.L, 32)
        /\ x.L = 1024 => Last(ret.embeddings).L = 32

\* C4 (amended): with dilation d the last tensor of the band discriminator
\* has temporal length floor((L + 221 - 188 d) / 32) + 4 - 4 d, that is
\* ceil((L + 2) / 32) for d = 1, floor((L - 283) / 32) for d = 2 and
\* floor((L - 599) / 32) for d = 3, each module following the convolution
\* length rule after its reflection padding; 1024 gives 33, 23 and 13.
C4_LastLengthByDilation ==
    (Completed /\ IsEBEN) =>
        LET d == dis[1].dilation
            n == Last(ret.embeddings).L
        IN  /\ FollowsLengthRule(ret.embeddings, dis[1].discriminator)
            /\ n = ((x.L + 221 - 188 * d) \div 32) + 4 - 4 * d
            /\ d = 1 => n = CeilDiv(x.L + 2, 32)
            /\ d = 2 => n = (x.L - 283) \div 32
            /\ d = 3 => n = (x.L - 599) \div 32
            /\ x.L = 1024 => n = (IF d = 1 THEN 33 ELSE IF d = 2 THEN 23 ELSE 13)

C4_Witness ==
    /\ Completed
    /\ IsEBEN /\ dis[1].dilation = 2
    /\ x.L = 1024
    /\ Last(ret.embeddings).L = 23

\* C5: the last tensor of the full-band discriminator has temporal length
\* ceil(input_length / 256) whenever evaluate completes: module 1 keeps the
\* length, modules 2 to 5 map L to ceil(L / 4), modules 6 and 7 keep it; an
\* input of length 4096 ends in a tensor of shape (batch, 1, 16).
C5_LastLengthCeil256 ==
    (Completed /\ IsMelGAN) =>
        LET e == ret.embeddings IN
        /\ Len(e) = 8
        /\ Last(e).L = CeilDiv(x.L, 256)
        /\ e[2].L = x.L
        /\ \A k \in 3..6 : e[k].L = CeilDiv(e[k - 1].L, 4)
        /\ e[7].L = e[6].L
        /\ e[8].L = e[7].L
        /\ x.L = 4096 => ShapeOf(Last(e)) = <<x.B, 1, 16>>

C5_Witness ==
    /\ Completed
    /\ IsMelGAN
    /\ x.L = 4096 /\ x.B = 2
    /\ ShapeOf(Last(ret.embeddings)) = <<2, 1, 16>>

\* -------------------------------------------------- claim on channel flow
\* C9: through modules 1 to 7 of the band discriminator the sub-bands stay
\* separate: channel c of the output of module k (C_k channels) changes
\* with input band floor(c / (C_k / q)) and with no other band; only the
\* output of module 8 changes with every band.
C9_BandsIndependentUntilLast ==
    LET blocks == flow_dis[1].discriminator
        qq == blocks[1].cin
    IN  \A k \in 1..(Len(flow) - 1) :
            IF k <= 7
            THEN /\ DOMAIN flow[k + 1] = 0..(blocks[k].cout - 1)
                 /\ \A c \in DOMAIN flow[k + 1] :
                       flow[k + 1][c] <=> (c \div (blocks[k].cout \div qq) = flow_band)
            ELSE /\ DOMAIN flow[k + 1] = {0}
                 /\ flow[k + 1][0]

C9_Witness ==
    /\ Len(flow) = 9
    /\ flow_dis[1].discriminator[1].cin = 4
    /\ flow_band = 2
    /\ flow[8][480] /\ ~flow[8][479] /\ ~flow[8][720]
    /\ flow[9][0]

====
